---- MODULE Spec2Model ----
(***************************************************************************)
(* Model of the causal-ordering core of the decentralised chat             *)
(* (src/artefact/causal.py, with the parts of src/artefact/controller.py   *)
(* and src/artefact/factories.py that drive it).                           *)
(*                                                                         *)
(* Every peer runs one Controller with one CausalOrderManager (COM).  The  *)
(* COM of peer j holds clock_j, SR_j and LOG_j (Kshemkalyani-Singhal       *)
(* algorithm).  send and recv run under one re-entrant lock / condition;   *)
(* addPeer and delPeer are called from the reactor thread without it.      *)
(***************************************************************************)
EXTENDS Naturals, Sequences, FiniteSets

\* ------------------------------------------------------------------ bounds

\* Number of events in a behaviour that start an operation of a peer:
\* connections made, connections lost and send invocations.
MaxEvents == 5

\* ------------------------------------------------------------- peer ids

\* Peer ids are IP addresses (Controller.ip, addr.host).
Peers == {"10.0.0.1", "10.0.0.2", "10.0.0.3"}

\* The characters of a peer id: iterating a Python str yields its
\* one-character substrings.
CharsOf(p) ==
    CASE p = "10.0.0.1" -> {"1", "0", "."}
      [] p = "10.0.0.2" -> {"1", "0", ".", "2"}
      [] p = "10.0.0.3" -> {"1", "0", ".", "3"}
      [] OTHER -> {}

\* Payload headers of the messages the reactor thread sends (a user's
\* command, the DAT snapshot of a new connection).  The handlers of MSG,
\* DAT, CRG, LVG and AJG never use the COM; the JNG handler answers
\* with an AJG unicast when the receiver is a member of the group and does
\* nothing to the COM otherwise.  A JNG payload therefore covers both what a
\* receiver does with any other header and the reply.  A payload is the
\* tuple of its header and of the fields that follow it.
Headers == {<<"JNG">>}

\* header = message[0:3]
HeaderOf(M) == M[1]

\* --------------------------------------------------- CausalMessageEntry

\* dataclass(eq=True) compares (i, clock_i, Dests); __hash__ uses
\* (i, clock_i) only.  A Python set of entries therefore keeps two entries
\* that agree on (i, clock_i) and differ in Dests: exactly a set of records.
CausalMessageEntry(i, clock_i, Dests) ==
    [i |-> i, clock_i |-> clock_i, Dests |-> Dests]

Ident(e) == <<e.i, e.clock_i>>

\* ------------------------------------------------------ COM pure helpers

newerEntryExists(s, t, X) ==
    \E x \in X : s = x.i /\ t < x.clock_i

\* A faulty purge that keeps every entry.
purgeNothing(LOG) == LOG

\* purgeNullEntries as a function of the log.  The newest entry of an
\* origin is never discarded, so the result does not depend on the order
\* in which the marked entries are discarded.
purgeNullEntries(LOG) ==
    {l \in LOG : ~(l.Dests = {} /\ newerEntryExists(l.i, l.clock_i, LOG))}

\* A faulty (1a) that counts once more than it should.
IncClockTwice(clock) == clock + 2

\* send (1a): self.clock_j = self.clock_j + 1
IncClock(clock) == clock + 1

\* A faulty (1b) that forgets ".union([d])".
PruneEntryNoUnion(o, d, Dests) ==
    [o EXCEPT !.Dests = o.Dests \ Dests]

\* send (1b), first inner loop: the two ifs applied to one copied entry.
PruneEntry(o, d, Dests) ==
    LET o1 == IF d \notin o.Dests
              THEN [o EXCEPT !.Dests = o.Dests \ Dests]
              ELSE o
    IN  IF d \in o1.Dests
        THEN [o1 EXCEPT !.Dests = (o1.Dests \ Dests) \cup {d}]
        ELSE o1

\* A faulty (1b) that piggy-backs the log as it is.
SendOMUnpruned(LOG, d, Dests) == LOG

\* A faulty (1b) that never drops an entry from the copy.
SendOMKeepStale(LOG, d, Dests) == {PruneEntry(o, d, Dests) : o \in LOG}

\* send (1b): the O_M piggy-backed on the envelope for destination d.
SendOM(LOG, d, Dests) ==
    LET pruned == {PruneEntry(o, d, Dests) : o \in LOG}
    IN  {o \in pruned :
            ~(o.Dests = {} /\ newerEntryExists(o.i, o.clock_i, pruned))}

\* A faulty (1b) that prunes the log itself: "O_M = self.LOG_j" in place
\* of the deep copy.
AfterPruneShared(LOG, d, Dests) == {PruneEntry(o, d, Dests) : o \in LOG}

\* send (1b): LOG_j after the loop body for destination d.  The body works
\* on "copy.deepcopy(self.LOG_j)", entries and Dests sets included.
AfterPrune(LOG, d, Dests) == LOG

\* The orders in which "for d in Dests" may iterate the set.
Orders(Dests) ==
    {f \in [1..Cardinality(Dests) -> Dests] :
        \A a, b \in 1..Cardinality(Dests) : f[a] = f[b] => a = b}

RECURSIVE LogSeenAt(_, _, _, _)
\* LOG_j as the n-th iteration of the loop (1b) finds it.
LogSeenAt(LOG, order, n, Dests) ==
    IF n = 1 THEN LOG
    ELSE AfterPrune(LogSeenAt(LOG, order, n - 1, Dests), order[n - 1], Dests)

\* A faulty (1c) that leaves the Dests of the log entries as they are.
SendLOGNoShrink(LOG, j, clock, Dests) ==
    purgeNullEntries(LOG) \cup {CausalMessageEntry(j, clock, Dests)}

\* A faulty (1d) that inserts the entry under the clock value after the
\* one the envelopes carry.
SendLOGNextClock(LOG, j, clock, Dests) ==
    purgeNullEntries({[l EXCEPT !.Dests = l.Dests \ Dests] : l \in LOG})
        \cup {CausalMessageEntry(j, clock + 1, Dests)}

\* send (1c), (1d): the log after the send with the new clock value.
SendLOG(LOG, j, clock, Dests) ==
    purgeNullEntries({[l EXCEPT !.Dests = l.Dests \ Dests] : l \in LOG})
        \cup {CausalMessageEntry(j, clock, Dests)}

\* recv (2c): O_M.add(...) and "o.Dests.difference(self.j)".  self.j is a
\* str, so difference() removes the characters of j from Dests, not j.
StripSelf(O_M, j, k, t_k, Dests) ==
    {[o EXCEPT !.Dests = o.Dests \ CharsOf(j)] :
        o \in O_M \cup {CausalMessageEntry(k, t_k, Dests)}}

\* recv (2d), first pass: entries of O_M and of LOG_j marked as redundant.
MarkedOM(O_M, LOG) ==
    {o \in O_M : \E l \in LOG :
        /\ l.i = o.i
        /\ o.clock_i < l.clock_i
        /\ Ident(o) \notin {Ident(x) : x \in LOG}}

MarkedLOG(O_M, LOG) ==
    {l \in LOG : \E o \in O_M :
        /\ l.i = o.i
        /\ l.clock_i < o.clock_i
        /\ Ident(l) \notin {Ident(x) : x \in O_M}}

\* A faulty second pass that adds the Dests of the O_M entry to l.Dests.
ShrinkEntryUnion(l, O_M) ==
    [l EXCEPT !.Dests =
        @ \cup UNION {o.Dests : o \in {x \in O_M : Ident(x) = Ident(l)}}]

\* recv (2d), second pass: l.Dests is intersected with the Dests of every
\* entry of O_M with the same (i, clock_i).
ShrinkEntry(l, O_M) ==
    [l EXCEPT !.Dests =
        {x \in l.Dests : \A o \in O_M : Ident(o) = Ident(l) => x \in o.Dests}]

\* A faulty merge that forgets to discard from O_M the entries the second
\* pass has absorbed into the log.
RecvLOGKeepAbsorbed(LOG, j, k, t_k, Dests, O_M) ==
    LET om0  == StripSelf(O_M, j, k, t_k, Dests)
        om1  == om0 \ MarkedOM(om0, LOG)
        log1 == LOG \ MarkedLOG(om0, LOG)
        log2 == {ShrinkEntry(l, om1) : l \in log1}
    IN  purgeNullEntries(log2 \cup om1)

\* recv (2c)-(2e): the log after the envelope (k, t_k, Dests, O_M) has been
\* delivered at j.
RecvLOG(LOG, j, k, t_k, Dests, O_M) ==
    LET om0  == StripSelf(O_M, j, k, t_k, Dests)
        om1  == om0 \ MarkedOM(om0, LOG)
        log1 == LOG \ MarkedLOG(om0, LOG)
        log2 == {ShrinkEntry(l, om1) : l \in log1}
        om2  == {o \in om1 : Ident(o) \notin {Ident(l) : l \in log1}}
    IN  purgeNullEntries(log2 \cup om2)

\* A faulty addPeer that counts the connections of a tracked peer.
AddPeerSRCount(SR, peer_id) ==
    [p \in DOMAIN SR \cup {peer_id} |->
        IF p # peer_id THEN SR[p]
        ELSE IF peer_id \in DOMAIN SR THEN SR[peer_id] + 1 ELSE 0]

\* addPeer / delPeer on SR_j (a dict: a function on the tracked peers).
AddPeerSR(SR, peer_id) ==
    [p \in DOMAIN SR \cup {peer_id} |-> IF p = peer_id THEN 0 ELSE SR[p]]

AddPeerLOG(LOG, peer_id) ==
    LOG \cup {CausalMessageEntry(peer_id, 0, {})}

DelPeerSR(SR, peer_id) ==
    [p \in DOMAIN SR \ {peer_id} |-> SR[p]]

\* A faulty delPeer that keeps the entries addressed to the peer.
DelPeerLOGOriginOnly(LOG, j, peer_id) ==
    {cme \in LOG : peer_id # cme.i} \cup {CausalMessageEntry(j, 0, {})}

\* delPeer: discard entries of or to the peer, re-seed (controller.ip, 0, {}).
DelPeerLOG(LOG, j, peer_id) ==
    {cme \in LOG : ~(peer_id = cme.i \/ peer_id \in cme.Dests)}
        \cup {CausalMessageEntry(j, 0, {})}

\* ------------------------------------------------------------- the codec

RECURSIVE SetToList(_)
\* list(S): the elements of a set in some order.
SetToList(S) ==
    IF S = {} THEN <<>>
    ELSE LET x == CHOOSE y \in S : TRUE
         IN  <<x>> \o SetToList(S \ {x})

\* A faulty decoder that skips the first element of every array.
ListToSetSkipFirst(L) == {L[n] : n \in 2..Len(L)}

\* set(L) of a decoded JSON array.
ListToSet(L) == {L[n] : n \in 1..Len(L)}

\* json.dumps([m, clock_m, M, list(Dests), [[i, clock_i, list(Dests)]...]])
packMessage(m, clock_m, M, Dests, O_M) ==
    LET entries == SetToList(O_M)
    IN  << m, clock_m, M, SetToList(Dests),
           [n \in 1..Len(entries) |->
               << entries[n].i, entries[n].clock_i,
                  SetToList(entries[n].Dests) >>] >>

\* json.loads and the reshaping into (k, t_k, M, Dests, O_M).
unpackMessage(message) ==
    [k     |-> message[1],
     t_k   |-> message[2],
     M     |-> message[3],
     Dests |-> ListToSet(message[4]),
     O_M   |-> {CausalMessageEntry(message[5][n][1], message[5][n][2],
                                   ListToSet(message[5][n][3])) :
                   n \in 1..Len(message[5])}]

\* ------------------------------------------------------------------ state

VARIABLES
    clock_j,    \* clock_j[j]: CausalOrderManager.clock_j of peer j
    SR_j,       \* SR_j[j]: the dict SR_j of peer j (a function on its keys)
    LOG_j,      \* LOG_j[j]: the set LOG_j of peer j
    peers,      \* peers[j]: the keys of Controller.peers of peer j
    net,        \* packed messages handed to a transport, not yet received
    workers,    \* recv threads blocked in condition.wait_for
    delivered,  \* delivered[j]: (k, t_k) of every deliverMessage call at j
    hist,       \* hist[j]: the messages in the causal past of peer j
    sent,       \* every send invocation: sender, clock, Dests, causal past
    outgoing,   \* handleOutgoingMessage calls that returned at "if not Dests"
    joined,     \* joined[j][p]: clock_j of j when j last ran addPeer(p)
    garbled,    \* garbled[j]: (k, t_k) of the envelopes j could not unpack
    merging,    \* merging[j]: the envelope a recv thread at j has delivered
                \* (2b) and not yet merged (2c)-(2e); it holds the condition
    stopped,    \* the peers whose Controller.terminate has stopped the reactor
    groups,     \* groups[j]: Controller.groups of peer j, group -> members
    histories,  \* histories[j]: Controller.histories of j, target -> deque
    budget      \* events (see MaxEvents) a behaviour may still start

vars == << clock_j, SR_j, LOG_j, peers, net, workers, delivered, hist, sent,
           outgoing, joined, garbled, merging, stopped, groups, histories,
           budget >>

comVars == << clock_j, SR_j, LOG_j >>
threadVars == << merging, stopped >>
ghostVars == << delivered, hist, sent, outgoing, garbled >>

\* The tables of the Controller.  The payloads of the specifications of the
\* COM carry no group and no history (a MSG payload there is a line to one
\* user, which recordMessage does not store), so that their deliveries
\* leave the tables as they are; SpecTables has them in view.
appVars == << groups, histories >>

\* CausalOrderManager.__init__, Controller.__init__ and Controller.start of
\* every peer: the user of a peer (user_name, "name@ip") is written as the
\* peer's address, and is the one member of 'all'.
Constructed ==
    /\ clock_j = [j \in Peers |-> 0]
    /\ SR_j = [j \in Peers |-> [p \in {j} |-> 0]]
    /\ LOG_j = [j \in Peers |-> {CausalMessageEntry(j, 0, {})}]
    /\ peers = [j \in Peers |-> {}]
    /\ net = {}
    /\ workers = {}
    /\ delivered = [j \in Peers |-> {}]
    /\ hist = [j \in Peers |-> {}]
    /\ sent = {}
    /\ outgoing = {}
    /\ joined = [j \in Peers |-> [p \in {} |-> 0]]
    /\ garbled = [j \in Peers |-> {}]
    /\ merging = [j \in Peers |-> {}]
    /\ stopped = {}
    /\ groups = [j \in Peers |-> [g \in {"all"} |-> {j}]]
    /\ histories = [j \in Peers |-> [g \in {"all"} |-> << >>]]

Init ==
    /\ Constructed
    /\ budget = MaxEvents

\* condition.notify_all() at peer j: every thread waiting there re-evaluates
\* its predicate.
NotifyAll(W, j) ==
    {[w EXCEPT !.notified = (w.at = j) \/ w.notified] : w \in W}

\* self.SR_j[k] = t_k
SetSR(SR, k, t_k) ==
    [p \in DOMAIN SR \cup {k} |-> IF p = k THEN t_k ELSE SR[p]]

\* The causal past recorded when message id = (k, t) was sent.
PastOf(id) ==
    (CHOOSE s \in sent : s.k = id[1] /\ s.t = id[2]).past

Envelope(d, j, clock, M, Dests, LOG) ==
    [to |-> d, msg |-> packMessage(j, clock, M, Dests, SendOM(LOG, d, Dests))]

\* The identity (sender, clock) of an unpacked envelope.
IdOf(e) == <<e.k, e.t_k>>

\* ------------------------------------------------------------- membership

\* Peers are interchangeable until the first connection is made: the two
\* peers that connect first are called 10.0.0.1 and 10.0.0.2.
FirstClient == "10.0.0.1"
FirstServer == "10.0.0.2"
NoConnectionYet == \A q \in Peers : peers[q] = {}

\* The clock value of a peer is noted when it runs addPeer(p).
JoinedAt(J, p, clock) ==
    [q \in DOMAIN J \cup {p} |-> IF q = p THEN clock ELSE J[q]]

\* A TCP connection between j and peer_id is established: buildProtocol of
\* the ClientProtocolFactory at one end and of the ServerProtocolFactory at
\* the other call Controller.addPeer, which calls the COM's addPeer, also
\* for a peer that is already tracked (a second connection).  The DAT
\* snapshot each end then sends to the other (connectionMade) is a Send
\* step; the model lets other steps come before it.
buildProtocol(j, peer_id) ==
    /\ budget > 0
    /\ peer_id # j
    /\ NoConnectionYet => (j = FirstClient /\ peer_id = FirstServer)
    /\ budget' = budget - 1
    /\ peers' = [peers EXCEPT ![j] = @ \cup {peer_id},
                              ![peer_id] = @ \cup {j}]
    /\ SR_j' = [SR_j EXCEPT ![j] = AddPeerSR(@, peer_id),
                            ![peer_id] = AddPeerSR(@, j)]
    /\ LOG_j' = [LOG_j EXCEPT ![j] = AddPeerLOG(@, peer_id),
                              ![peer_id] = AddPeerLOG(@, j)]
    /\ joined' = [joined EXCEPT ![j] = JoinedAt(@, peer_id, clock_j[j]),
                                ![peer_id] = JoinedAt(@, j, clock_j[peer_id])]
    /\ UNCHANGED << clock_j, net, workers, ghostVars, threadVars, appVars >>

\* Envelopes from peer_id not yet read at j when the connection is lost.
Unread(j, peer_id) ==
    {e \in net : e.to = j /\ unpackMessage(e.msg).k = peer_id}

\* Controller.delPeer(peer_id) on connection lost.  The COM's delPeer is
\* reached only when a user name of the peer is found (userKnown); without
\* one the IndexError is caught and the COM keeps tracking the peer.
DelPeer(j, peer_id, userKnown) ==
    /\ budget > 0
    /\ peer_id \in peers[j]
    /\ budget' = budget - 1
    /\ peers' = [peers EXCEPT ![j] = @ \ {peer_id}]
    /\ net' = net \ Unread(j, peer_id)
    /\ IF userKnown /\ peer_id \in DOMAIN SR_j[j]
       THEN /\ SR_j' = [SR_j EXCEPT ![j] = DelPeerSR(@, peer_id)]
            /\ LOG_j' = [LOG_j EXCEPT ![j] = DelPeerLOG(@, j, peer_id)]
       ELSE UNCHANGED << SR_j, LOG_j >>
    /\ UNCHANGED << clock_j, workers, ghostVars, threadVars, joined, appVars >>

\* ------------------------------------------------------------------- send

\* The peers whose address j can resolve from its user and group tables:
\* its own connections and, once a DAT snapshot may have been delivered,
\* the users other peers reported.
KnownTo(j) ==
    IF delivered[j] = {} THEN peers[j] ELSE Peers \ {j}

\* The destination sets the callers of send pass: handleOutgoingMessage
\* resolves a target to addresses, discards its own and returns when none
\* is left; newConnectionMade passes the new peer.
Resolved(j) ==
    {D \in SUBSET KnownTo(j) : D # {}}

\* What a send invocation records for the ordering properties: the sender,
\* the clock value, the destinations an envelope was emitted for, the
\* destination set the caller passed and the messages that causally
\* precede it.
RecordSend(j, clock, Dests, asked, past) ==
    sent \cup {[k |-> j, t |-> clock, Dests |-> Dests, asked |-> asked,
               past |-> past]}

\* CausalOrderManager.send(M, Dests) with every destination bound to a
\* transport.
Send(j, M, Dests) ==
    /\ budget > 0
    /\ Dests \subseteq peers[j]
    /\ LET clock == IncClock(clock_j[j])
       IN  /\ clock_j' = [clock_j EXCEPT ![j] = clock]
           /\ \E order \in Orders(Dests) :
                 /\ net' = net \cup
                      {Envelope(order[n], j, clock, M, Dests,
                                LogSeenAt(LOG_j[j], order, n, Dests)) :
                          n \in 1..Len(order)}
                 /\ LOG_j' = [LOG_j EXCEPT ![j] =
                      SendLOG(LogSeenAt(@, order, Len(order) + 1, Dests),
                              j, clock, Dests)]
           /\ workers' = NotifyAll(workers, j)
           /\ sent' = RecordSend(j, clock, Dests, Dests, hist[j])
           /\ hist' = [hist EXCEPT ![j] = @ \cup {<<j, clock>>}]
    /\ budget' = budget - 1
    /\ UNCHANGED << SR_j, peers, delivered, outgoing, joined, garbled,
                    threadVars >>

\* send with a destination that has no entry in Controller.peers:
\* self.controller.peers[d] raises KeyError inside the loop (1b), after the
\* clock was incremented and after the envelopes of the destinations
\* iterated before d (any subset Emitted of the bound ones) were scheduled.
SendKeyError(j, M, Dests, Emitted) ==
    /\ budget > 0
    /\ Dests \ peers[j] # {}
    /\ Emitted \subseteq Dests \cap peers[j]
    /\ LET clock == IncClock(clock_j[j])
       IN  /\ clock_j' = [clock_j EXCEPT ![j] = clock]
           /\ net' = net \cup
                {Envelope(d, j, clock, M, Dests, LOG_j[j]) : d \in Emitted}
           /\ sent' = RecordSend(j, clock, Emitted, Dests, hist[j])
           /\ hist' = [hist EXCEPT ![j] = @ \cup {<<j, clock>>}]
    /\ budget' = budget - 1
    /\ UNCHANGED << SR_j, LOG_j, peers, workers, delivered, outgoing, joined,
                    garbled, threadVars >>

\* ------------------------------------------------------------------- recv

\* recv (2a): the entries whose test "self.j in o.Dests and not
\* t_m <= self.SR_j[m]" reads SR_j at all.
Guarded(O_M, j) == {o \in O_M : j \in o.Dests}

\* The test passes: no wait, and no KeyError from self.SR_j[m].
Passes(o, SR) == o.i \in DOMAIN SR /\ o.clock_i <= SR[o.i]

\* The test finds the dependency unmet: the thread enters wait_for.
Unmet(o, SR) == o.i \in DOMAIN SR /\ ~(o.clock_i <= SR[o.i])

\* What deliverMessage and the ordering properties record at delivery.
RecordDelivery(j, k, t_k) ==
    /\ delivered' = [delivered EXCEPT ![j] = @ \cup {<<k, t_k>>}]

PastAfterDelivery(j, k, t_k) ==
    hist[j] \cup {<<k, t_k>>} \cup PastOf(<<k, t_k>>)

\* recv (2b)-(2e) for a payload whose handler does not use the COM.
Deliver(j, e, W, N) ==
    /\ RecordDelivery(j, e.k, e.t_k)
    /\ hist' = [hist EXCEPT ![j] = PastAfterDelivery(j, e.k, e.t_k)]
    /\ SR_j' = [SR_j EXCEPT ![j] = SetSR(@, e.k, e.t_k)]
    /\ LOG_j' = [LOG_j EXCEPT ![j] =
                    RecvLOG(@, j, e.k, e.t_k, e.Dests, e.O_M)]
    /\ workers' = NotifyAll(W, j)
    /\ net' = N
    /\ UNCHANGED << clock_j, sent, peers, outgoing, joined, appVars, garbled,
                    threadVars, budget >>

\* recv (2b)-(2e) for a JNG payload at a member of the group:
\* handleJoinGroupBCast answers with handleOutgoingMessage(user, AJG), a
\* send to {k} that runs inside deliverMessage, on the thread that already
\* holds the (re-entrant) condition, before SR_j[k] is set.
DeliverWithReply(j, e, W, N) ==
    /\ HeaderOf(e.M) = "JNG"
    /\ budget > 0
    /\ e.k \in peers[j]
    /\ LET clock == IncClock(clock_j[j])
           past  == PastAfterDelivery(j, e.k, e.t_k)
       IN  /\ RecordDelivery(j, e.k, e.t_k)
           /\ clock_j' = [clock_j EXCEPT ![j] = clock]
           /\ net' = N \cup {Envelope(e.k, j, clock, <<"AJG">>, {e.k},
                                    LOG_j[j])}
           /\ sent' = RecordSend(j, clock, {e.k}, {e.k}, past)
           /\ hist' = [hist EXCEPT ![j] = past \cup {<<j, clock>>}]
           /\ SR_j' = [SR_j EXCEPT ![j] = SetSR(@, e.k, e.t_k)]
           /\ LOG_j' = [LOG_j EXCEPT ![j] =
                 RecvLOG(SendLOG(@, j, clock, {e.k}),
                         j, e.k, e.t_k, e.Dests, e.O_M)]
           /\ workers' = NotifyAll(W, j)
    /\ budget' = budget - 1
    /\ UNCHANGED << peers, outgoing, joined, appVars, garbled, threadVars >>

\* The same answer when the connection to k is gone: the nested send raises
\* KeyError after incrementing the clock; the exception leaves recv before
\* (2b)'s SR_j update, the merge and notify_all.
DeliverReplyKeyError(j, e, W, N) ==
    /\ HeaderOf(e.M) = "JNG"
    /\ budget > 0
    /\ e.k \notin peers[j]
    /\ LET clock == IncClock(clock_j[j])
           past  == PastAfterDelivery(j, e.k, e.t_k)
       IN  /\ RecordDelivery(j, e.k, e.t_k)
           /\ clock_j' = [clock_j EXCEPT ![j] = clock]
           /\ sent' = RecordSend(j, clock, {}, {e.k}, past)
           /\ hist' = [hist EXCEPT ![j] = past \cup {<<j, clock>>}]
    /\ workers' = W
    /\ net' = N
    /\ budget' = budget - 1
    /\ UNCHANGED << SR_j, LOG_j, peers, outgoing, joined, appVars, garbled,
                    threadVars >>

\* The recv thread enters wait_for on dependency o; rest are the guarded
\* entries the for loop has not reached yet.
Block(j, e, o, rest, W, N) ==
    /\ workers' = W \cup {[at |-> j, e |-> e, cur |-> o, rest |-> rest,
                           notified |-> FALSE]}
    /\ net' = N
    /\ UNCHANGED << comVars, peers, ghostVars, threadVars, joined, appVars, budget >>

\* self.SR_j[m] raises KeyError for an origin that is not a key of SR_j:
\* the thread ends, nothing is delivered, nobody is notified.
RecvKeyError(j, W, N) ==
    /\ workers' = W
    /\ net' = N
    /\ UNCHANGED << comVars, peers, ghostVars, threadVars, joined, appVars, budget >>

\* The for loop of (2a) over the guarded entries todo, in the set's
\* iteration order (any order), then (2b)-(2e).  W and N are the blocked
\* threads and the network without this envelope.
RecvLoop(j, e, todo, W, N) ==
    \/ \E o \in todo : \E rest \in SUBSET (todo \ {o}) :
          /\ Unmet(o, SR_j[j])
          /\ \A x \in (todo \ {o}) \ rest : Passes(x, SR_j[j])
          /\ Block(j, e, o, rest, W, N)
    \/ \E o \in todo : \E rest \in SUBSET (todo \ {o}) :
          /\ o.i \notin DOMAIN SR_j[j]
          /\ \A x \in (todo \ {o}) \ rest : Passes(x, SR_j[j])
          /\ RecvKeyError(j, W, N)
    \/ /\ \A x \in todo : Passes(x, SR_j[j])
       /\ \/ Deliver(j, e, W, N)
          \/ DeliverWithReply(j, e, W, N)
          \/ DeliverReplyKeyError(j, e, W, N)

\* recvHandler + recv: a packed message arrives over the connection from k,
\* a worker thread is started and takes the condition.
Recv(j, env) ==
    /\ env \in net
    /\ env.to = j
    /\ LET e == unpackMessage(env.msg)
       IN  /\ e.k \in peers[j]
           /\ RecvLoop(j, e, Guarded(e.O_M, j), workers, net \ {env})

\* A notified thread re-evaluates the wait_for predicate t_m <= SR_j[m]:
\* it waits again, dies of KeyError when delPeer removed m, or goes on with
\* the for loop.
Wake(w) ==
    /\ w \in workers
    /\ w.notified
    /\ LET j == w.at
           W == workers \ {w}
       IN  \/ /\ Unmet(w.cur, SR_j[j])
              /\ workers' = W \cup {[w EXCEPT !.notified = FALSE]}
              /\ UNCHANGED << comVars, peers, net, ghostVars, threadVars,
                              joined, appVars, budget >>
           \/ /\ w.cur.i \notin DOMAIN SR_j[j]
              /\ RecvKeyError(j, W, net)
           \/ /\ Passes(w.cur, SR_j[j])
              /\ RecvLoop(j, w.e, w.rest, W, net)

\* ------------------------------------------------------------------- spec

Next ==
    \/ \E j \in Peers, p \in Peers : buildProtocol(j, p)
    \/ \E j \in Peers, p \in Peers, u \in BOOLEAN : DelPeer(j, p, u)
    \/ \E j \in Peers, M \in Headers : \E D \in Resolved(j) :
          Send(j, M, D) /\ UNCHANGED appVars
    \/ \E j \in Peers, M \in Headers, E \in SUBSET Peers :
          \E D \in Resolved(j) : SendKeyError(j, M, D, E) /\ UNCHANGED appVars
    \/ \E j \in Peers, env \in net : Recv(j, env)
    \/ \E w \in workers : Wake(w)

Spec == Init /\ [][Next]_vars

\* ------------------------------------------- chat traffic, no connection lost

\* Number of events (connections made, send invocations) of a behaviour of
\* the chat-only specifications below.
MaxChatEvents == 7

\* The peer every chat message below is addressed to.
Listener == "10.0.0.3"

InitChat ==
    /\ Constructed
    /\ budget = MaxChatEvents

\* The behaviours of the system in which no connection is lost, every send
\* finds its transports and the other peers send MSG payloads (printed by
\* the receiver) to destination sets that contain the listener.
NextChat ==
    \/ \E j \in Peers, p \in Peers : buildProtocol(j, p)
    \/ \E j \in Peers \ {Listener}, D \in SUBSET Peers :
          Listener \in D /\ Send(j, <<"MSG">>, D) /\ UNCHANGED appVars
    \/ \E j \in Peers, env \in net : Recv(j, env)
    \/ \E w \in workers : Wake(w)

SpecChat == InitChat /\ [][NextChat]_vars

\* The same traffic with MaxEvents events, where the reactor hands every
\* packed message it has received to a worker thread and a notified worker
\* thread gets to run.
SpecChatFair ==
    /\ Init /\ [][NextChat]_vars
    /\ WF_vars(\E j \in Peers, env \in net : Recv(j, env))
    /\ WF_vars(\E w \in workers : Wake(w))

\* -------------------------------------------------------- controller glue

\* A faulty resolution that forgets "Dests.discard(self.ip)".
ResolveDestsKeepSelf(j, members) == members

\* handleOutgoingMessage: the addresses of the target (one user, or the
\* members of a group) without the caller's own.
ResolveDests(j, members) == members \ {j}

\* A faulty test that never takes the early return.
NoRecipientsIgnored(Dests) == FALSE

\* handleOutgoingMessage: "if not Dests: return".
NoRecipients(Dests) == Dests = {}

\* Capacity of every deque of Controller.histories.
history_maxlen == 10

\* A faulty append that refuses the new message when the deque is full.
DequeAppendKeepOldest(h, m) ==
    IF Len(h) < history_maxlen THEN Append(h, m) ELSE h

\* deque(maxlen=history_maxlen).append(m): a full deque drops its leftmost
\* item.
DequeAppend(h, m) ==
    IF Len(h) < history_maxlen THEN Append(h, m) ELSE Append(Tail(h), m)

\* Controller.recordMessage(message): a MSG payload whose target has a
\* history is appended to it, without its header ("message[4:]").
recordMessage(H, M) ==
    IF HeaderOf(M) = "MSG" /\ M[2] \in DOMAIN H
    THEN [H EXCEPT ![M[2]] = DequeAppend(@, Tail(M))]
    ELSE H

\* A faulty handler that records the message before it looks at the
\* recipients.
handleOutgoingMessageRecordsFirst(j, M, members) ==
    /\ budget > 0
    /\ histories' = [histories EXCEPT ![j] = recordMessage(@, M)]
    /\ groups' = groups
    /\ LET Dests == ResolveDests(j, members)
       IN  \/ /\ NoRecipients(Dests)
              /\ outgoing' = outgoing \cup {<<j, members>>}
              /\ budget' = budget - 1
              /\ UNCHANGED << comVars, peers, net, workers, delivered, hist,
                              sent, joined, garbled, threadVars >>
           \/ /\ ~NoRecipients(Dests)
              /\ Send(j, M, Dests)
           \/ /\ ~NoRecipients(Dests)
              /\ \E E \in SUBSET Peers : SendKeyError(j, M, Dests, E)

\* Controller.handleOutgoingMessage(target, message) at peer j for a target
\* whose users have the addresses members: returns when no recipient is
\* left, calls send otherwise.
handleOutgoingMessage(j, M, members) ==
    /\ budget > 0
    /\ LET Dests == ResolveDests(j, members)
       IN  \/ /\ NoRecipients(Dests)
              /\ outgoing' = outgoing \cup {<<j, members>>}
              /\ budget' = budget - 1
              /\ UNCHANGED << comVars, peers, net, workers, delivered, hist,
                              sent, joined, appVars, garbled, threadVars >>
           \/ /\ ~NoRecipients(Dests)
              /\ histories' = [histories EXCEPT ![j] = recordMessage(@, M)]
              /\ groups' = groups
              /\ Send(j, M, Dests)
           \/ /\ ~NoRecipients(Dests)
              /\ histories' = [histories EXCEPT ![j] = recordMessage(@, M)]
              /\ groups' = groups
              /\ \E E \in SUBSET Peers : SendKeyError(j, M, Dests, E)

\* data.decode() of one read from the connection: the packed messages the
\* read returns, one after the other (TCP keeps no message boundaries and
\* the protocols add no framing).
Chunk(envs) == SetToList({env.msg : env \in envs})

\* A lenient decoder that reads the first document and ignores the rest.
LoadsFirst(chunk) == TRUE

\* json.loads accepts a text that is exactly one document and raises
\* JSONDecodeError otherwise.
Loads(chunk) == Len(chunk) = 1

\* Protocol.dataReceived -> recvMessage -> handleIncomingMessage ->
\* recvHandler at j for one read from the connection to k that returns the
\* packed messages envs: unpackMessage raises on more than one message,
\* before any thread is started; otherwise recv runs.
dataReceived(j, k, envs) ==
    /\ envs # {}
    /\ envs \subseteq net
    /\ \A env \in envs : env.to = j /\ unpackMessage(env.msg).k = k
    /\ k \in peers[j]
    /\ LET chunk == Chunk(envs)
       IN  IF Loads(chunk)
           THEN LET e == unpackMessage(chunk[1])
                IN  RecvLoop(j, e, Guarded(e.O_M, j), workers, net \ envs)
           ELSE /\ net' = net \ envs
                /\ garbled' = [garbled EXCEPT ![j] = @ \cup
                       {IdOf(unpackMessage(env.msg)) : env \in envs}]
                /\ UNCHANGED << comVars, peers, workers, delivered, hist,
                                sent, outgoing, joined, appVars, threadVars,
                                budget >>

\* The behaviours of Spec together with the calls of handleOutgoingMessage
\* for every target, those that name no other peer included, and with the
\* reads that return more than one packed message.
NextGlue ==
    \/ Next
    \/ \E j \in Peers, M \in Headers, members \in SUBSET Peers :
          members \ {j} \subseteq KnownTo(j)
              /\ handleOutgoingMessage(j, M, members)
    \/ \E j \in Peers, k \in Peers, envs \in SUBSET net :
          dataReceived(j, k, envs)

SpecGlue == Init /\ [][NextGlue]_vars

\* ---------------------------------------------------- threads and the lock

\* A wait that keeps the condition's lock while the thread sleeps.
HoldsLockWhileWaiting(j) ==
    merging[j] # {} \/ \E w \in workers : w.at = j

\* "with condition:" in recv: the thread between (2b) and (2e) holds the
\* lock of the condition; a thread inside wait_for has released it.
HoldsLock(j) == merging[j] # {}

\* recv (2a), (2b) on a worker thread, for an envelope that need not wait
\* and whose handler does not use the COM: deliverMessage and
\* "self.SR_j[k] = t_k".  The thread then goes on to (2c)-(2e) in a later
\* step, holding the lock in between.
DeliverBegin(j, env) ==
    /\ env \in net
    /\ env.to = j
    /\ j \notin stopped
    /\ ~HoldsLock(j)
    /\ LET e == unpackMessage(env.msg)
       IN  /\ e.k \in peers[j]
           /\ \A x \in Guarded(e.O_M, j) : Passes(x, SR_j[j])
           /\ RecordDelivery(j, e.k, e.t_k)
           /\ hist' = [hist EXCEPT ![j] = PastAfterDelivery(j, e.k, e.t_k)]
           /\ SR_j' = [SR_j EXCEPT ![j] = SetSR(@, e.k, e.t_k)]
           /\ merging' = [merging EXCEPT ![j] = {e}]
    /\ net' = net \ {env}
    /\ UNCHANGED << clock_j, LOG_j, peers, workers, sent, outgoing, joined, appVars,
                    garbled, stopped, budget >>

\* recv (2c)-(2e) and notify_all of the thread that ran DeliverBegin, on
\* LOG_j as it is now.
DeliverEnd(j) ==
    /\ \E e \in merging[j] :
          LOG_j' = [LOG_j EXCEPT ![j] =
                       RecvLOG(@, j, e.k, e.t_k, e.Dests, e.O_M)]
    /\ workers' = NotifyAll(workers, j)
    /\ merging' = [merging EXCEPT ![j] = {}]
    /\ UNCHANGED << clock_j, SR_j, peers, net, ghostVars, joined, appVars, stopped,
                    budget >>

\* Controller.terminate: reactor.stop().  The reactor of j runs no callback
\* afterwards; the recv threads of j are ordinary threads and live on.
terminate(j) ==
    /\ budget > 0
    /\ j \notin stopped
    /\ stopped' = stopped \cup {j}
    /\ budget' = budget - 1
    /\ UNCHANGED << comVars, peers, net, workers, ghostVars, joined, appVars, merging >>

\* The behaviours of the system with the threads of a peer in view: the
\* reactor thread runs the connection callbacks (addPeer and delPeer take
\* no lock), the sends of the event loop and the start of every recv; send
\* and recv take the lock of the condition; a recv thread may be preempted
\* between (2b) and (2c).
NextThreads ==
    \/ \E j \in Peers \ stopped, p \in Peers \ stopped : buildProtocol(j, p)
    \/ \E j \in Peers \ stopped, p \in Peers, u \in BOOLEAN : DelPeer(j, p, u)
    \/ \E j \in Peers \ stopped, M \in Headers :
          \E D \in Resolved(j) :
              ~HoldsLock(j) /\ Send(j, M, D) /\ UNCHANGED appVars
    \/ \E j \in Peers \ stopped, M \in Headers, E \in SUBSET Peers :
          \E D \in Resolved(j) :
              ~HoldsLock(j) /\ SendKeyError(j, M, D, E) /\ UNCHANGED appVars
    \/ \E j \in Peers \ stopped, env \in net : ~HoldsLock(j) /\ Recv(j, env)
    \/ \E w \in workers : ~HoldsLock(w.at) /\ Wake(w)
    \/ \E j \in Peers, env \in net : DeliverBegin(j, env)
    \/ \E j \in Peers : DeliverEnd(j)
    \/ \E j \in Peers : terminate(j)

SpecThreads == Init /\ [][NextThreads]_vars

\* ------------------------------------------------------- the codec alone

\* Largest clock value and largest number of entries of the envelopes the
\* codec is applied to below.
MaxCodecClock == 1
MaxCodecEntries == 2

CodecEntries ==
    {CausalMessageEntry(i, c, D) :
        i \in Peers, c \in 0..MaxCodecClock,
        D \in SUBSET {"10.0.0.1", "10.0.0.2"}}

\* Well-formed envelopes (k, t_k, M, Dests, O_M): peer ids are strings,
\* clocks are integers, the payload is a string, Dests and O_M are sets.
CodecEnvelopes ==
    {[k |-> k, t_k |-> t, M |-> M, Dests |-> D, O_M |-> O] :
        k \in Peers, t \in 1..MaxCodecClock, M \in {<<"MSG">>, <<"JNG">>},
        D \in SUBSET Peers,
        O \in {X \in SUBSET CodecEntries : Cardinality(X) <= MaxCodecEntries}}

\* One envelope x is about to be packed; sent holds its five fields.
InitCodec ==
    /\ clock_j = [j \in Peers |-> 0]
    /\ SR_j = [j \in Peers |-> [p \in {j} |-> 0]]
    /\ LOG_j = [j \in Peers |-> {CausalMessageEntry(j, 0, {})}]
    /\ peers = [j \in Peers |-> {}]
    /\ net = {}
    /\ workers = {}
    /\ delivered = [j \in Peers |-> {}]
    /\ hist = [j \in Peers |-> {}]
    /\ sent \in {{x} : x \in CodecEnvelopes}
    /\ outgoing = {}
    /\ joined = [j \in Peers |-> [p \in {} |-> 0]]
    /\ garbled = [j \in Peers |-> {}]
    /\ merging = [j \in Peers |-> {}]
    /\ stopped = {}
    /\ groups = [j \in Peers |-> [g \in {"all"} |-> {j}]]
    /\ histories = [j \in Peers |-> [g \in {"all"} |-> << >>]]
    /\ budget = 0

\* send (1b): packMessage and the hand-over to the transport.
PackEnvelope(x) ==
    /\ x \in sent
    /\ net = {}
    /\ workers = {}
    /\ net' = {[to |-> Listener,
                msg |-> packMessage(x.k, x.t_k, x.M, x.Dests, x.O_M)]}
    /\ UNCHANGED << comVars, peers, workers, ghostVars, threadVars, joined, appVars,
                    budget >>

\* recvHandler: unpackMessage and the start of the thread that runs recv
\* with the unpacked fields as its arguments.
recvHandler(env) ==
    /\ env \in net
    /\ net' = net \ {env}
    /\ workers' = workers \cup {[at |-> env.to, e |-> unpackMessage(env.msg)]}
    /\ UNCHANGED << comVars, peers, ghostVars, threadVars, joined, appVars, budget >>

NextCodec ==
    \/ \E x \in sent : PackEnvelope(x)
    \/ \E env \in net : recvHandler(env)

SpecCodec == InitCodec /\ [][NextCodec]_vars

\* ------------------------------------------- the tables of one Controller

\* Number of events (connections, commands of the user, payloads handed to
\* deliverMessage) of a behaviour of SpecTables.
MaxTableEvents == 4

\* The peer whose Controller is in view.
Local == FirstClient

\* The one group besides 'all'.
GroupNames == {"all", "g"}

\* dict assignment and "del".
Put(F, key, v) ==
    [x \in DOMAIN F \cup {key} |-> IF x = key THEN v ELSE F[x]]
Drop(F, key) == [x \in DOMAIN F \ {key} |-> F[x]]

Range(h) == {h[n] : n \in 1..Len(h)}

\* "MSG @target user> line": the chat line `line` of user to target.
Line(target, user, line) == <<"MSG", target, user, line>>

\* "for message in history: if message not in ...: ....append(message)"
RECURSIVE MergeHistory(_, _)
MergeHistory(d, h) ==
    IF h = << >> THEN d
    ELSE MergeHistory(IF Head(h) \in Range(d) THEN d
                      ELSE DequeAppend(d, Head(h)),
                      Tail(h))

\* A deque for the group unless it has one.
WithHistory(H, g) == IF g \in DOMAIN H THEN H ELSE Put(H, g, << >>)

\* updateState, the loop over the snapshot's groups S: an unknown group is
\* taken over, a known group without members is deleted, the members of
\* any other are added to the local list.
updateStateGroups(G, S) ==
    [g \in (DOMAIN G \cup DOMAIN S)
             \ {x \in DOMAIN G \cap DOMAIN S : G[x] = {}} |->
        IF g \notin DOMAIN G THEN S[g]
        ELSE IF g \in DOMAIN S THEN G[g] \cup S[g]
        ELSE G[g]]

\* members[0] of a group broadcast.
UserOf(members) == CHOOSE u \in members : TRUE

handleCreateGroupBCast(G, g, members) ==
    IF g \notin DOMAIN G THEN Put(G, g, members) ELSE G

\* handleJoinGroupBCast, "if group in self.groups and user not in
\* self.groups[group]: append(user) else: self.groups[group] = members".
handleJoinGroupBCast(G, g, members) ==
    IF g \in DOMAIN G /\ UserOf(members) \notin G[g]
    THEN [G EXCEPT ![g] = @ \cup {UserOf(members)}]
    ELSE Put(G, g, members)

\* handleLeaveGroupBCast: the user is removed, an empty group is deleted.
handleLeaveGroupBCast(G, g, members) ==
    IF g \notin DOMAIN G THEN G
    ELSE IF G[g] \ {UserOf(members)} = {} THEN Drop(G, g)
    ELSE [G EXCEPT ![g] = @ \ {UserOf(members)}]

\* handleJoinGroupAck: a member of the group merges the group's history.
\* The lookup of a group or of a history the peer does not have raises
\* before any table is written.
handleJoinGroupAck(H, G, j, g, group_history) ==
    IF g \in DOMAIN G /\ j \in G[g] /\ g \in DOMAIN H
    THEN [H EXCEPT ![g] = MergeHistory(@, group_history)]
    ELSE H

\* The tables after Controller.deliverMessage(M) at j: recordMessage, then
\* the handler of the header.
GroupsAfter(j, M) ==
    LET G == groups[j]
    IN  CASE HeaderOf(M) = "DAT" -> updateStateGroups(G, M[2])
          [] HeaderOf(M) = "CRG" -> handleCreateGroupBCast(G, M[2], M[3])
          [] HeaderOf(M) = "JNG" -> handleJoinGroupBCast(G, M[2], M[3])
          [] HeaderOf(M) = "LVG" -> handleLeaveGroupBCast(G, M[2], M[3])
          [] OTHER -> G

HistoriesAfter(j, M) ==
    LET H == recordMessage(histories[j], M)
    IN  CASE HeaderOf(M) = "DAT" ->
                [H EXCEPT !["all"] = MergeHistory(@, M[3])]
          [] HeaderOf(M) = "CRG" -> WithHistory(H, M[2])
          [] HeaderOf(M) = "AJG" ->
                handleJoinGroupAck(H, groups[j], j, M[2], M[4])
          [] OTHER -> H

\* handleJoinGroupBCast answers when the local user is a member of the
\* group (after the update).
Answers(j, M) ==
    /\ HeaderOf(M) = "JNG"
    /\ j \in GroupsAfter(j, M)[M[2]]

\* The AJG payload of the answer: group, members, list(histories[group]).
JoinGroupAck(j, M) ==
    <<"AJG", M[2], M[3],
      IF M[2] \in DOMAIN histories[j] THEN histories[j][M[2]] ELSE << >> >>

\* Controller.deliverMessage(M) at j, called by recv.
deliverMessage(j, M) ==
    /\ budget > 0
    /\ groups' = [groups EXCEPT ![j] = GroupsAfter(j, M)]
    /\ histories' = [histories EXCEPT ![j] = HistoriesAfter(j, M)]
    /\ IF Answers(j, M)
       THEN \/ Send(j, JoinGroupAck(j, M), {UserOf(M[3])})
            \/ SendKeyError(j, JoinGroupAck(j, M), {UserOf(M[3])}, {})
       ELSE /\ budget' = budget - 1
            /\ UNCHANGED << comVars, peers, net, workers, ghostVars,
                            threadVars, joined >>

\* Controller.createGroup(g) at j: the group with the local user as its
\* member and its history, then handleOutgoingMessage('all', CRG).
createGroup(j, g) ==
    /\ budget > 0
    /\ g \notin DOMAIN groups[j]
    /\ groups' = [groups EXCEPT ![j] = Put(@, g, {j})]
    /\ histories' = [histories EXCEPT ![j] = WithHistory(@, g)]
    /\ LET Dests == ResolveDests(j, groups[j]["all"])
           M == <<"CRG", g, {j}>>
       IN  IF NoRecipients(Dests)
           THEN /\ budget' = budget - 1
                /\ UNCHANGED << comVars, peers, net, workers, ghostVars,
                                threadVars, joined >>
           ELSE \/ Send(j, M, Dests)
                \/ \E E \in SUBSET Peers : SendKeyError(j, M, Dests, E)

\* The payloads peer k sends: the snapshot of its groups and of its 'all'
\* history, the broadcasts of its user for the group, its chat lines to a
\* group or to the user of j, and its answer to the JNG of j.
SnapshotGroups(k) ==
    {[g \in {"all"} |-> A] : A \in {{k}, Peers \ {Local}}}
        \cup {[g \in GroupNames |-> IF g = "all" THEN A ELSE B] :
                 A \in {{k}, Peers \ {Local}},
                 B \in SUBSET (Peers \ {Local}) \ {{}}}

SnapshotHistories(k) ==
    {<< >>, << <<"all", k, 1>> >>, << <<"all", k, 1>>, <<"all", k, 2>> >>}

Snapshots(k) ==
    {<<"DAT", S, h>> : S \in SnapshotGroups(k), h \in SnapshotHistories(k)}

GroupBCasts(k) == {<<hd, "g", {k}>> : hd \in {"CRG", "JNG", "LVG"}}

ChatLines(k, j) == {Line(t, k, n) : t \in GroupNames \cup {j}, n \in 1..2}

GroupAcks(k, j) ==
    {<<"AJG", "g", {j}, h>> : h \in {<< >>, << <<"g", k, 1>> >>}}

Payloads(k, j) ==
    Snapshots(k) \cup GroupBCasts(k) \cup ChatLines(k, j) \cup GroupAcks(k, j)

InitTables ==
    /\ Constructed
    /\ budget = MaxTableEvents

\* The Controller of the local peer: its connections, the payloads its COM
\* delivers from the peers it has been connected to, and the commands of
\* its user (a chat line to a group it knows, the creation of a group).
NextTables ==
    \/ \E p \in Peers : buildProtocol(Local, p) \/ buildProtocol(p, Local)
    \/ \E p \in Peers, u \in BOOLEAN : DelPeer(Local, p, u)
    \/ \E k \in DOMAIN joined[Local] : \E M \in Payloads(k, Local) :
          deliverMessage(Local, M)
    \/ \E g \in DOMAIN groups[Local], n \in 1..2 :
          handleOutgoingMessage(Local, Line(g, Local, n), groups[Local][g])
    \/ createGroup(Local, "g")

SpecTables == InitTables /\ [][NextTables]_vars

\* ------------------------------------------------------ the 'all' history

\* Number of events (the connection, chat lines sent and delivered,
\* snapshots delivered) of a behaviour of SpecHistory.
MaxHistoryEvents == 12

InitHistory ==
    /\ Constructed
    /\ budget = MaxHistoryEvents

\* The text of the next chat line: lines are numbered as they are written.
NextLine == MaxHistoryEvents - budget + 1

\* The snapshots of the peer's 'all' history that reach the local peer: its
\* first line alone, or with the line it wrote last.
HistorySnapshots ==
    {<<"DAT", [g \in {"all"} |-> {FirstServer}], h>> :
        h \in {<< <<"all", FirstServer, 1>> >>,
               << <<"all", FirstServer, 1>>,
                  <<"all", FirstServer, NextLine>> >>}}

\* The local Controller and one peer: the connection, the lines to 'all'
\* the peer sends and the local user writes, and the snapshots of the peer.
NextHistory ==
    \/ peers[Local] = {} /\ buildProtocol(Local, FirstServer)
    \/ FirstServer \in peers[Local]
          /\ deliverMessage(Local, Line("all", FirstServer, NextLine))
    \/ handleOutgoingMessage(Local, Line("all", Local, NextLine),
                             groups[Local]["all"])
    \/ \E M \in HistorySnapshots :
          FirstServer \in peers[Local] /\ deliverMessage(Local, M)

SpecHistory == InitHistory /\ [][NextHistory]_vars

\* ------------------------------------------------------------ properties

\* The destinations an envelope of message id was emitted for.
DestsOf(id) ==
    (CHOOSE s \in sent : s.k = id[1] /\ s.t = id[2]).Dests

\* The envelopes addressed to j that are on the network or held by a recv
\* thread blocked at j.
Pending(j) ==
    {unpackMessage(env.msg) : env \in {x \in net : x.to = j}}
        \cup {w.e : w \in {x \in workers : x.at = j}}

\* C1 (causal delivery): whenever peer p has delivered a message m2, it has
\* already delivered every message m1 that causally precedes m2 and was
\* sent to p as well.
CausalDelivery ==
    \A p \in Peers : \A m2 \in delivered[p] : \A m1 \in PastOf(m2) :
        p \in DestsOf(m1) => m1 \in delivered[p]

\* C2 (FIFO per sender): whenever peer j has delivered the message k sent
\* with clock t, it has already delivered every message k sent to j with a
\* smaller clock.
FifoPerSender ==
    \A j \in Peers : \A m2 \in delivered[j] : \A s \in sent :
        (s.k = m2[1] /\ s.k # j /\ s.t < m2[2] /\ j \in s.Dests)
            => <<s.k, s.t>> \in delivered[j]

\* C3 (delivery condition): in the step in which recv at j delivers an
\* envelope, every entry o of its O_M with j in o.Dests has
\* o.clock_i <= SR_j[o.i] in the state the delivery starts from: all the
\* dependencies hold at the same time.
DeliveryCondition ==
    [][\A j \in Peers : \A e \in Pending(j) :
          IdOf(e) \in delivered'[j] \ delivered[j]
              => \A o \in Guarded(e.O_M, j) :
                    o.i \in DOMAIN SR_j[j] => o.clock_i <= SR_j[j][o.i]]_vars

\* A recv thread blocked at j holds the envelope id while every dependency
\* of the envelope addressed to j is satisfied.
BlockedSatisfied(j, id) ==
    \E w \in workers :
        /\ w.at = j
        /\ IdOf(w.e) = id
        /\ \A o \in Guarded(w.e.O_M, j) : Passes(o, SR_j[j])

\* C4 (no lost wakeup): with no envelope lost and no peer removed, an
\* envelope blocked in recv at the listener is eventually delivered once
\* all its dependencies addressed to the listener are satisfied.
NoLostWakeup ==
    \A k \in Peers \ {Listener}, t \in 1..MaxEvents :
        BlockedSatisfied(Listener, <<k, t>>)
            ~> (<<k, t>> \in delivered[Listener])

\* C5 (delPeer while a receive is blocked): a step that removes p from
\* SR_j wakes every recv thread waiting for SR_j[p], and a recv thread
\* whose awaited origin is no longer tracked ends only by delivering its
\* payload.
DelPeerUnblocks ==
    [][/\ \A j \in Peers, p \in Peers :
             (p \in DOMAIN SR_j[j] /\ p \notin DOMAIN SR_j'[j])
                 => \A w \in workers :
                       (w.at = j /\ w.cur.i = p)
                           => \/ IdOf(w.e) \in delivered'[j]
                              \/ [w EXCEPT !.notified = TRUE] \in workers'
       /\ \A w \in workers :
             (/\ w.cur.i \notin DOMAIN SR_j[w.at]
              /\ \A x \in workers' : x.at # w.at \/ x.e # w.e)
                 => IdOf(w.e) \in delivered'[w.at]]_vars

\* C6 (SR monotone): for every peer k that is tracked at j before and after
\* a step, SR_j[k] does not decrease in the step.
SRMonotone ==
    [][\A j \in Peers : \A k \in DOMAIN SR_j[j] \cap DOMAIN SR_j'[j] :
          SR_j[j][k] <= SR_j'[j][k]]_vars

\* The send invocations of j in a step, and the envelopes they emit.
NewSends(j) == {s \in sent' \ sent : s.k = j}

EmittedBy(j) ==
    {unpackMessage(env.msg) :
        env \in {x \in net' \ net : unpackMessage(x.msg).k = j}}

\* C7 (clock): every step changes clock_j by the number of send
\* invocations of j in it, which is at most one (so a send adds exactly 1
\* whatever its destinations and nothing else changes the clock), and
\* every envelope j emits in the step carries the new clock value.
ClockOncePerSend ==
    [][\A j \in Peers :
          /\ Cardinality(NewSends(j)) <= 1
          /\ clock_j'[j] = clock_j[j] + Cardinality(NewSends(j))
          /\ \A e \in EmittedBy(j) :
                NewSends(j) # {} /\ e.t_k = clock_j'[j]]_vars

\* A send to two destinations has put two envelopes with the sender's
\* current clock value on the network.
TwoEnvelopesOneClock ==
    \E s \in sent :
        /\ Cardinality(s.Dests) = 2
        /\ clock_j[s.k] = s.t
        /\ \A d \in s.Dests : \E env \in net :
              env.to = d /\ IdOf(unpackMessage(env.msg)) = <<s.k, s.t>>

\* C8 (one entry per identity): no log holds two entries that agree on
\* (i, clock_i) and differ in Dests.
OneEntryPerIdent ==
    \A j \in Peers : \A l1, l2 \in LOG_j[j] :
        Ident(l1) = Ident(l2) => l1 = l2

\* A peer has delivered m1 and later a message that carries m1 in its
\* causal past, and its log holds the one entry of m1.
MergedSameIdent ==
    \E j \in Peers : \E m1, m2 \in delivered[j] :
        /\ m1 # m2
        /\ m1 \in PastOf(m2)
        /\ \E l \in LOG_j[j] : Ident(l) = m1

\* The entries of a log with empty Dests that a newer entry of the same
\* origin shadows.
Stale(LOG) ==
    {l \in LOG : l.Dests = {} /\ newerEntryExists(l.i, l.clock_i, LOG)}

\* C9 as stated (no shadowed empty entry after any operation): no log
\* holds an entry with empty Dests together with a newer entry of the same
\* origin.
NoStaleEntry ==
    \A j \in Peers : Stale(LOG_j[j]) = {}

\* C9 as amended: a recv that delivers and completes (it sets SR_j) leaves
\* no shadowed empty entry in LOG_j, and whatever operation ran last, a
\* shadowed empty entry of LOG_j is an entry of j itself or a seed entry
\* with clock 0.
StaleOnlyOwnOrSeed ==
    [][\A j \in Peers :
          /\ (delivered'[j] # delivered[j] /\ SR_j'[j] # SR_j[j])
                => Stale(LOG_j'[j]) = {}
          /\ \A l \in Stale(LOG_j'[j]) : l.i = j \/ l.clock_i = 0]_vars

\* One peer has completed a receive and holds no shadowed empty entry while
\* another holds a shadowed empty entry of its own earlier send.
StaleOwnEntryKept ==
    \E j \in Peers, q \in Peers :
        /\ delivered[j] # {}
        /\ Stale(LOG_j[j]) = {}
        /\ \E l \in Stale(LOG_j[q]) : l.i = q /\ l.clock_i > 0

\* C10 (SR after delivery): after the step in which recv at j delivers the
\* envelope of sender k with clock t_k, SR_j[k] = t_k.
SRAfterDelivery ==
    [][\A j \in Peers : \A m \in delivered'[j] \ delivered[j] :
          m[1] \in DOMAIN SR_j'[j] /\ SR_j'[j][m[1]] = m[2]]_vars

\* C11 (codec round trip): the thread recvHandler starts gets, from the
\* packed message, exactly the sender, clock, payload, destination set and
\* set of entries (origin, clock and Dests of each) that were packed.
CodecRoundTrip ==
    \A w \in workers : \A x \in sent : w.e = x

\* An envelope with no destination, whose O_M holds an entry with empty
\* Dests and an entry with two destinations, has been packed and unpacked.
CodecEmptySetsUnpacked ==
    \E w \in workers :
        /\ w.e.Dests = {}
        /\ \E o \in w.e.O_M : o.Dests = {}
        /\ \E o \in w.e.O_M : Cardinality(o.Dests) = 2

\* C12 (addPeer idempotent): in the state a connection step leaves, where
\* addPeer(p) has run at j and addPeer(j) at p, running the same addPeer
\* once more changes neither SR_j nor LOG_j; addPeer never changes clock_j.
AddPeerIdempotent ==
    [][\A j \in Peers, p \in Peers :
          buildProtocol(j, p)
              => /\ AddPeerSR(SR_j'[j], p) = SR_j'[j]
                 /\ AddPeerLOG(LOG_j'[j], p) = LOG_j'[j]
                 /\ AddPeerSR(SR_j'[p], j) = SR_j'[p]
                 /\ AddPeerLOG(LOG_j'[p], j) = LOG_j'[p]
                 /\ clock_j' = clock_j]_vars

\* Two connections have been made between the first two peers, one right
\* after the other, and nothing else has happened.
AddPeerRanTwice ==
    /\ budget = MaxEvents - 2
    /\ peers[FirstClient] = {FirstServer}
    /\ peers[FirstServer] = {FirstClient}
    /\ \A j \in Peers : clock_j[j] = 0
    /\ \A j \in Peers \ {FirstClient, FirstServer} : peers[j] = {}
    /\ SR_j[FirstClient] = AddPeerSR(AddPeerSR(SR_j[FirstClient], FirstServer),
                                     FirstServer)

SentJustBefore(a, s2) ==
    {s1 \in sent :
        /\ s1.k = a
        /\ s1.t + 1 = s2.t
        /\ s1.Dests = s2.Dests
        /\ Cardinality(s2.Dests) = 2
        /\ hist[a] = s1.past \cup {<<a, s1.t>>}
        /\ CausalMessageEntry(a, s1.t, s1.Dests) \in LOG_j[a]}

\* The envelopes a step puts on the network, with their destination.
EmittedTo(a) ==
    {[to |-> env.to, e |-> unpackMessage(env.msg)] :
        env \in {x \in net' \ net : unpackMessage(x.msg).k = a}}

\* C16 as stated (common-destination pruning): when a sends m2 to {b, c}
\* right after m1 to {b, c}, every envelope of m2 carries the entry of m1
\* with empty Dests.
CommonDestsPrunedToEmpty ==
    [][\A a \in Peers : \A s2 \in NewSends(a) :
          \A s1 \in SentJustBefore(a, s2) : \A x \in EmittedTo(a) :
              \E o \in x.e.O_M :
                  Ident(o) = <<a, s1.t>> /\ o.Dests = {}]_vars

\* C16 as amended: the envelope of m2 addressed to d carries the entry of
\* m1 with Dests = {d}, for d = b and for d = c.
CommonDestsPrunedToSelf ==
    [][\A a \in Peers : \A s2 \in NewSends(a) :
          \A s1 \in SentJustBefore(a, s2) :
              /\ {x.to : x \in EmittedTo(a)} = s2.Dests
              /\ \A x \in EmittedTo(a) :
                    \E o \in x.e.O_M :
                        Ident(o) = <<a, s1.t>> /\ o.Dests = {x.to}]_vars

\* Two envelopes of a second message to the same two destinations are on
\* the network, each with the entry of the first message.
SecondCommonSendEmitted ==
    \E s1, s2 \in sent :
        /\ s1.k = s2.k
        /\ s1.t + 1 = s2.t
        /\ s1.Dests = s2.Dests
        /\ Cardinality(s2.Dests) = 2
        /\ hist[s2.k] = s1.past \cup {<<s1.k, s1.t>>, <<s2.k, s2.t>>}
        /\ \A d \in s2.Dests : \E env \in net :
              /\ env.to = d
              /\ IdOf(unpackMessage(env.msg)) = <<s2.k, s2.t>>
              /\ \E o \in unpackMessage(env.msg).O_M :
                    Ident(o) = <<s1.k, s1.t>>

\* Message (a, t) is the first message a has sent to d since a last ran
\* addPeer(d).
FirstAfterJoin(a, d, t) ==
    /\ d \in DOMAIN joined[a]
    /\ t > joined[a][d]
    /\ \A s \in sent :
          (s.k = a /\ d \in s.Dests /\ s.t > joined[a][d]) => t <= s.t

\* C17 (join during traffic): the first message a sends to d after
\* addPeer(d) is delivered at d without blocking on a message sent before
\* d joined; in particular it is never held back at d by a message that a
\* sent before that addPeer and that d has already delivered.
JoinDeliversFirst ==
    \A w \in workers :
        FirstAfterJoin(w.e.k, w.at, w.e.t_k)
            => ~(/\ w.cur.i = w.e.k
                 /\ w.cur.clock_i <= joined[w.e.k][w.at]
                 /\ <<w.e.k, w.cur.clock_i>> \in delivered[w.at]
                 /\ ~w.notified)

\* C18 (origin missing from SR_j): while no connection is made or lost, an
\* envelope that arrives at j with a dependency addressed to j whose origin
\* is not a key of SR_j is not given up: it leaves the network only to be
\* delivered or to wait in recv (recv reads the missing SR_j[origin] as 0
\* and does not fail).
UnknownOriginAsZero ==
    [][\A j \in Peers : \A env \in net :
          (/\ env.to = j
           /\ \E o \in Guarded(unpackMessage(env.msg).O_M, j) :
                 o.i \notin DOMAIN SR_j[j]
           /\ peers' = peers
           /\ unpackMessage(env.msg) \notin Pending(j)')
              => IdOf(unpackMessage(env.msg)) \in delivered'[j]]_vars

SendNeverHalfApplied ==
    [][\A j \in Peers :
          clock_j'[j] # clock_j[j]
              => \E l \in LOG_j'[j] : Ident(l) = <<j, clock_j'[j]>>]_vars

\* C21 (membership inside the critical section): while a recv thread at j
\* is between (2b) and (2e), holding the lock, no step of another thread
\* changes SR_j or LOG_j of j; in particular no addPeer and no delPeer.
MembershipInsideLock ==
    [][\A j \in Peers :
          (merging[j] # {} /\ merging'[j] = merging[j])
              => SR_j'[j] = SR_j[j] /\ LOG_j'[j] = LOG_j[j]]_vars

\* C22 (steps 2 to 8 atomic): in the step in which recv at j delivers an
\* envelope and runs to its notify, nothing but that receive acts on the
\* COM of j: no send of j happens inside it, so clock_j is unchanged and
\* LOG_j is the merge of the envelope into the log the receive started on.
ReceiveAtomic ==
    [][\A j \in Peers : \A e \in Pending(j) :
          IdOf(e) \in delivered'[j] \ delivered[j]
              => /\ NewSends(j) = {}
                 /\ clock_j'[j] = clock_j[j]
                 /\ LOG_j'[j] = RecvLOG(LOG_j[j], j, e.k, e.t_k, e.Dests,
                                        e.O_M)]_vars

\* C23 (shutdown): the step in which a peer terminates notifies every recv
\* thread blocked at that peer (so that it can return without delivering):
\* each of them has left the wait or has been notified after the step.
ShutdownNotifiesWaiters ==
    [][\A j \in Peers :
          (j \in stopped' \ stopped)
              => \A w \in workers :
                    w.at = j
                        => \/ w \notin workers'
                           \/ [w EXCEPT !.notified = TRUE] \in workers']_vars

\* C24 (delPeer): after the step in which delPeer(p) runs at j, SR_j has no
\* key p, LOG_j holds no entry with origin p and no entry whose Dests
\* contains p, every other entry is kept as it was, nothing else is added,
\* and LOG_j holds (j, 0, {}).
DelPeerPostcondition ==
    [][\A j \in Peers, p \in Peers :
          (p \in DOMAIN SR_j[j] /\ p \notin DOMAIN SR_j'[j])
              => /\ \A l \in LOG_j'[j] : l.i # p /\ p \notin l.Dests
                 /\ \A l \in LOG_j[j] :
                       (l.i # p /\ p \notin l.Dests) => l \in LOG_j'[j]
                 /\ \A l \in LOG_j'[j] :
                       l \in LOG_j[j] \/ l = CausalMessageEntry(j, 0, {})
                 /\ CausalMessageEntry(j, 0, {}) \in LOG_j'[j]]_vars

\* A peer that has sent its latest message to p among others no longer
\* tracks p, holds no entry of that message and still holds an entry of a
\* third peer.
DelPeerDiscardedByDest ==
    \E j \in Peers, p \in Peers :
        /\ p \in DOMAIN joined[j]
        /\ p \notin DOMAIN SR_j[j]
        /\ \E s \in sent :
              /\ s.k = j
              /\ p \in s.Dests
              /\ s.t = clock_j[j]
              /\ \A l \in LOG_j[j] : Ident(l) # <<j, s.t>>
        /\ \E l \in LOG_j[j] : l.i \notin {j, p}

\* The identities of the entries of a log.
Idents(LOG) == {Ident(l) : l \in LOG}

\* C25 (no revival), for the entry every log starts with: LOG_j holds
\* (j, 0, {}) from construction on, so once the identity (j, 0) is missing
\* from LOG_j the entry has been discarded, and no later step inserts an
\* entry with that identity again.
SeedNeverRevived ==
    [][\A j \in Peers :
          <<j, 0>> \notin Idents(LOG_j[j])
              => <<j, 0>> \notin Idents(LOG_j'[j])]_vars

\* C26 (connection lost): after every step in which the connection to p is
\* reported lost at j, so that p leaves the roster of j, p is not a key of
\* SR_j either.
LostPeerUntracked ==
    [][\A j \in Peers, p \in Peers :
          (p \in peers[j] /\ p \notin peers'[j])
              => p \notin DOMAIN SR_j'[j]]_vars

\* The recv threads that enter the wait in a step, each for an envelope it
\* has just read from the network.
NewlyBlocked(j) ==
    {w \in workers' \ workers :
        w.at = j /\ \A x \in workers : x.at # j \/ x.e # w.e}

\* C27 (no unnecessary blocking): a recv thread at j enters the wait for
\* an envelope only if some message that causally precedes the envelope's
\* message and was sent to j has not been delivered at j.
BlocksOnlyOnUndelivered ==
    [][\A j \in Peers : \A w \in NewlyBlocked(j) :
          \E m \in PastOf(IdOf(w.e)) :
              j \in DestsOf(m) /\ m \notin delivered[j]]_vars

DuplicateConnectKeeps ==
    [][\A j \in Peers, p \in Peers :
          (/\ p \in peers[j]
           /\ p \in DOMAIN SR_j[j]
           /\ buildProtocol(j, p))
              => /\ SR_j'[j][p] = SR_j[j][p]
                 /\ {l \in LOG_j'[j] : l.i = p}
                       = {l \in LOG_j[j] : l.i = p}]_vars

\* The Dests rule S-prune-d gives the entry derived from log entry l in
\* the envelope for destination d of a message sent to Dests.
PrunedDests(l, d, Dests) ==
    IF d \in l.Dests THEN (l.Dests \ Dests) \cup {d} ELSE l.Dests \ Dests

\* C30 (rule S-prune-d): in every envelope a send to Dests emits for a
\* destination d, every entry o of O_M comes from the log entry l of the
\* same identity with o.Dests = (l.Dests \ Dests) united with {d} when d
\* is in l.Dests and o.Dests = l.Dests \ Dests otherwise; so o.Dests
\* holds no destination of the message other than d.
SPruneD ==
    [][\A j \in Peers : \A s \in NewSends(j) : \A x \in EmittedTo(j) :
          \A o \in x.e.O_M :
              /\ \E l \in LOG_j[j] :
                    /\ Ident(l) = Ident(o)
                    /\ o.Dests = PrunedDests(l, x.to, x.e.Dests)
              /\ o.Dests \cap x.e.Dests \subseteq {x.to}]_vars

\* An envelope to d of a message sent to two destinations is on the
\* network; its O_M holds an entry of a third origin addressed to d and
\* to nobody else, and an entry with empty Dests.
PrunedEnvelopeEmitted ==
    \E env \in net :
        LET e == unpackMessage(env.msg)
        IN  /\ Cardinality(e.Dests) = 2
            /\ \E o \in e.O_M : o.i # e.k /\ o.Dests = {env.to}
            /\ \E o \in e.O_M : o.Dests = {}

\* C31 (rule S-drop-stale): in every envelope a send emits, O_M holds no
\* entry with empty Dests together with a strictly newer entry of the same
\* origin, and every entry of the log the send started on is in O_M, with
\* the Dests rule S-prune-d gives it, unless its pruned Dests is empty and
\* the log holds a newer entry of its origin.
SDropStale ==
    [][\A j \in Peers : \A s \in NewSends(j) : \A x \in EmittedTo(j) :
          /\ Stale(x.e.O_M) = {}
          /\ \A l \in LOG_j[j] :
                LET D == PrunedDests(l, x.to, x.e.Dests)
                IN  (D # {} \/ ~newerEntryExists(l.i, l.clock_i, LOG_j[j]))
                        => CausalMessageEntry(l.i, l.clock_i, D)
                               \in x.e.O_M]_vars

\* Two envelopes of one sender are on the network: the first carries the
\* sender's seed entry, the second carries the entry of the first message
\* and no longer the seed.
StaleSeedDropped ==
    \E env1, env2 \in net :
        LET e1 == unpackMessage(env1.msg)
            e2 == unpackMessage(env2.msg)
        IN  /\ e1.k = e2.k
            /\ e1.t_k = 1
            /\ e2.t_k = 2
            /\ CausalMessageEntry(e1.k, 0, {}) \in e1.O_M
            /\ <<e2.k, 1>> \in Idents(e2.O_M)
            /\ <<e2.k, 0>> \notin Idents(e2.O_M)

\* C32 (rule S-shrink-log): after a send of j to Dests that runs to its
\* end, LOG_j holds (j, clock_j, Dests), no other entry of LOG_j has a
\* member of Dests in its Dests, and every other entry is an entry of the
\* log before the send with the members of Dests removed.
SendShrinksLog ==
    [][\A j \in Peers, M \in Headers, D \in SUBSET Peers :
          Send(j, M, D)
              => LET new == CausalMessageEntry(j, clock_j'[j], D)
                 IN  /\ new \in LOG_j'[j]
                     /\ \A l \in LOG_j'[j] : l.Dests \cap D # {} => l = new
                     /\ \A l \in LOG_j'[j] \ {new} :
                           \E l0 \in LOG_j[j] :
                               /\ Ident(l0) = Ident(l)
                               /\ l.Dests = l0.Dests \ D]_vars

\* A peer has sent a message to two destinations and then one to one of
\* them: its log holds the first entry with the other destination only
\* and the second entry as sent.
EarlierEntryShrunk ==
    \E j \in Peers : \E l1, l2 \in LOG_j[j] : \E s \in sent :
        /\ l1.i = j /\ l2.i = j
        /\ l2.clock_i = clock_j[j]
        /\ l1.clock_i + 1 = l2.clock_i
        /\ s.k = j /\ s.t = l1.clock_i
        /\ Cardinality(s.Dests) = 2
        /\ Cardinality(l2.Dests) = 1
        /\ l2.Dests \subseteq s.Dests
        /\ l1.Dests = s.Dests \ l2.Dests

\* C33 (piggy-back sets built on a copy): in every step with a send of j,
\* the O_M of each emitted envelope is the one computed from LOG_j as it
\* was when the send started, whatever the order of the destinations, and
\* a send that runs to its end shrinks that same log.
PiggybackFromStartLog ==
    [][\A j \in Peers : \A s \in NewSends(j) :
          /\ \A x \in EmittedTo(j) :
                x.e.O_M = SendOM(LOG_j[j], x.to, x.e.Dests)
          /\ \A M \in Headers, D \in SUBSET Peers :
                Send(j, M, D)
                    => LOG_j'[j] = SendLOG(LOG_j[j], j, clock_j'[j], D)]_vars

\* The two envelopes of a send to two destinations are on the network;
\* each carries an entry of an earlier message of the sender addressed to
\* its own destination only, and the sender's log holds that entry with
\* empty Dests.
BothEnvelopesFromOneLog ==
    \E env1, env2 \in net :
        LET e1 == unpackMessage(env1.msg)
            e2 == unpackMessage(env2.msg)
        IN  /\ IdOf(e1) = IdOf(e2)
            /\ env1.to # env2.to
            /\ \E o1 \in e1.O_M, o2 \in e2.O_M :
                  /\ Ident(o1) = Ident(o2)
                  /\ o1.Dests = {env1.to}
                  /\ o2.Dests = {env2.to}
                  /\ CausalMessageEntry(o1.i, o1.clock_i, {}) \in LOG_j[e1.k]

\* C34 (self stripped): no entry of the log of a peer j lists j in its
\* Dests, in any reachable state.
NoSelfInLog ==
    \A j \in Peers : \A l \in LOG_j[j] : j \notin l.Dests

EntriesAnywhere ==
    UNION {LOG_j[j] : j \in Peers}
        \cup UNION {UNION {e.O_M : e \in Pending(j)} : j \in Peers}

\* The entry stands for a send its origin executed with that clock value,
\* and its Dests is inside the destination set of that send.
StandsForSend(l) ==
    \E s \in sent : s.k = l.i /\ s.t = l.clock_i /\ l.Dests \subseteq s.asked

\* C36 (entries stand for real sends): every entry with clock_i > 0 in a
\* LOG_j or in the O_M of an emitted envelope has an origin that executed
\* a send with that clock value, and its Dests is a subset of the
\* destination set of that send; every entry with clock_i = 0 has empty
\* Dests.
EntriesAreSends ==
    \A l \in EntriesAnywhere :
        IF l.clock_i > 0 THEN StandsForSend(l) ELSE l.Dests = {}

\* A peer's log holds, with a non-empty Dests, the entry of a message that
\* another peer sent and that it learned from the O_M of a third peer's
\* envelope: it is not a destination of the message and has not delivered
\* it.
ForeignEntryLogged ==
    \E j \in Peers : \E l \in LOG_j[j] : \E s \in sent :
        /\ l.clock_i > 0
        /\ l.Dests # {}
        /\ s.k = l.i /\ s.t = l.clock_i
        /\ s.k # j
        /\ j \notin s.asked
        /\ Ident(l) \notin delivered[j]

\* C38 (deliver returns normally): in the step in which recv at j hands the
\* payload of an envelope from k to deliverMessage, the receive runs on to
\* its end: SR_j[k] is the envelope's clock value, the envelope is merged
\* into LOG_j and every recv thread waiting at j is notified.
DeliverReturnsNormally ==
    [][\A j \in Peers : \A e \in Pending(j) :
          IdOf(e) \in delivered'[j] \ delivered[j]
              => /\ e.k \in DOMAIN SR_j'[j]
                 /\ SR_j'[j][e.k] = e.t_k
                 /\ \A w \in workers' : w.at = j => w.notified]_vars

\* C37 (handleOutgoingMessage): a call at j for a chat line whose target
\* resolves to members either finds no recipient besides j, and then no
\* history of j changes, no send is invoked, no envelope is emitted and
\* clock_j, SR_j, LOG_j are unchanged; or it invokes send exactly once,
\* with the members without j as the destination set.
OutgoingSendsOnceOrReturns ==
    [][\A j \in Peers, g \in GroupNames, n \in 1..2 :
          \A members \in SUBSET Peers :
              handleOutgoingMessage(j, Line(g, j, n), members)
                  => IF members \ {j} = {}
                     THEN /\ histories' = histories
                          /\ sent' = sent
                          /\ net' = net
                          /\ UNCHANGED comVars
                     ELSE /\ Cardinality(sent' \ sent) = 1
                          /\ \A s \in sent' \ sent :
                                /\ s.k = j
                                /\ s.asked = members \ {j}
                                /\ j \notin s.asked]_vars

\* The local user has had a line to 'all' returned for want of a
\* recipient, and later a line to 'all' recorded and sent to another peer.
LineReturnedLineSent ==
    /\ <<Local, {Local}>> \in outgoing
    /\ Len(histories[Local]["all"]) = 1
    /\ histories[Local]["all"][1][2] = Local
    /\ \E s \in sent : s.k = Local /\ s.asked # {} /\ s.Dests = s.asked

\* C40 (JNG never removes a member): when deliverMessage at j handles the
\* JNG broadcast of user u for group g, the members of g afterwards are
\* all the members j listed before together with u.
JoinKeepsMembers ==
    [][\A j \in Peers, k \in Peers : \A M \in GroupBCasts(k) :
          (HeaderOf(M) = "JNG" /\ deliverMessage(j, M))
              => /\ M[2] \in DOMAIN groups'[j]
                 /\ M[3] \subseteq groups'[j][M[2]]
                 /\ M[2] \in DOMAIN groups[j]
                       => groups[j][M[2]] \subseteq groups'[j][M[2]]]_vars

\* C39 (ring buffer of capacity 10): the 'all' history of a peer never
\* holds more than history_maxlen messages; a line to 'all' that is
\* delivered is the newest message of the history afterwards; and a step
\* that changes a full history drops messages from its old end only: what
\* is left of the old history is a suffix of it and comes first in the new
\* one.
HistoryIsRingBuffer ==
    [][\A j \in Peers :
          LET h  == histories[j]["all"]
              h2 == histories'[j]["all"]
          IN  /\ Len(h2) <= history_maxlen
              /\ \A k \in Peers :
                    deliverMessage(j, Line("all", k, NextLine))
                        => /\ h2 # << >>
                           /\ h2[Len(h2)] = <<"all", k, NextLine>>
              /\ (Len(h) = history_maxlen /\ h2 # h)
                    => \E n \in 1..history_maxlen :
                          /\ Len(h2) = history_maxlen
                          /\ SubSeq(h2, 1, history_maxlen - n)
                                = SubSeq(h, n + 1, history_maxlen)
                          /\ \A m \in 1..n :
                                h2[history_maxlen - n + m] \notin Range(h)
             ]_vars

\* The history is full and its newest message is the eleventh line or a
\* later one: the oldest line is no longer in it.
EleventhLineRecorded ==
    LET h == histories[Local]["all"]
    IN  /\ Len(h) = history_maxlen
        /\ h[history_maxlen][3] > history_maxlen
        /\ \A n \in 1..history_maxlen : h[n][3] # 1

====
